---- MODULE Spec2Model ----
(***************************************************************************)
(* Model of MarketDataAdapter (src/src/market_data_adapter/                *)
(* market_data_adapter.py): the monitors it spawns, the asyncio queue they *)
(* share, the subscription registries and the teardown.                    *)
(*                                                                         *)
(* The adapter runs on one asyncio event loop.  A step of the model is one *)
(* callback of the loop: a task runs from the point where it was suspended *)
(* to its next suspension (asyncio.sleep, a put on a full queue, an await  *)
(* of the feed), or the feed or a timer acts between two callbacks.  The    *)
(* consumer of the queue is a coroutine of the same loop (asyncio.Queue is *)
(* not thread-safe); in `ready` it is number 0.  `ready` is the loop's     *)
(* FIFO run queue, `putters` the queue's FIFO of producers suspended in    *)
(* put.                                                                    *)
(*                                                                         *)
(* Numbers of the feed (prices, sizes) are integers in hundredths.         *)
(***************************************************************************)
EXTENDS Integers, Sequences, FiniteSets, TLC

\* ------------------------------------------------------------- bounds
\* capacity of the output queue (queue_maxsize)
QueueMaxsize == 1
\* quote monitors started, and writes of the feed to the quote fields
MaxQuoteMonitors == 1
MaxQuoteUpdates == 1
\* tick monitors started, and length of a Ticker's tickByTicks list
MaxTickMonitors == 1
MaxTicks == 3
\* depth callbacks connected, and depth updates pushed by the feed
MaxListeners == 1
MaxDepthUpdates == 2
\* put tasks created by the depth callbacks
MaxPutTasks == 5
\* request_* operations called
MaxRequests == 1
\* length of a tickByTicks list when every kind of producer is modelled
MaxStreamTicks == 2
\* quote monitors and feed writes when the quotes are subscribed twice
MaxResubscribes == 2
MaxRewrites == 2
\* subscribe_* calls that pass their checks, in the adapter's life cycle
MaxSubscribes == 2
\* writes of the feed when some of them make a snapshot that cannot be built
MaxBadReads == 2
\* times the feed begins a tickByTicks list anew
MaxResets == 1

VARIABLES
    ib,             \* self.ib: "none" | "connected" | "disconnected"
    contracts,      \* self.contracts: the symbols with a contract
    ticker_subs,    \* self.ticker_subs: set of entries [key, symbol, kind, req]
    l2_depth_subs,  \* self.l2_depth_subs: set of entries [key, symbol, kind, req]
    queue,          \* self.queue: the items of the asyncio.Queue
    putters,        \* self.queue._putters: tasks suspended in put, FIFO
    ready,          \* the event loop's run queue: task ids, FIFO
    consumer,       \* the consumer: "away" | "ready" | "get" (suspended in
                    \* queue.get() on the empty queue)
    tasks,          \* the tasks created so far, in creation order
    quote,          \* feed: the Ticker's bid/ask/last/volume/time per symbol
    tickByTicks,    \* feed: the Ticker's tickByTicks list per symbol
    dom,            \* feed: the Ticker's domBids and domAsks per symbol
    updateEvent,    \* feed: the callbacks connected to the Tickers'
                    \* updateEvent, in the order of their connection
    calls,          \* history: the invocations of the depth callbacks
    upstream,       \* feed: the open requests [req, symbol, kind]
    log,            \* history: the calls the last disconnect() made on self.ib
    nreq,           \* feed: number of requests made so far (the last reqId)
    called,         \* history: the client's last subscribe_*, request_* or
                    \* disconnect call and the exception it raised ("": none)
    nupd,           \* number of feed events so far (bounds the feed)
    nmsg,           \* number of messages constructed for emission so far
    delivered,      \* history: every item put on the queue, in order
    dequeued        \* history: every item a consumer got, in order

vars == <<ib, contracts, ticker_subs, l2_depth_subs, queue, putters, ready,
          consumer, tasks, quote, tickByTicks, dom, updateEvent, calls, upstream, log,
          nreq, called, nupd, nmsg, delivered, dequeued>>

\* the adapter's registries, the feed's requests, the feed's data, the loop
registry == <<ticker_subs, l2_depth_subs>>
requests == <<upstream, log, nreq>>
feed == <<quote, tickByTicks, dom, updateEvent, calls, nupd>>
loop == <<queue, putters, ready, consumer, tasks, nmsg, delivered, dequeued>>

\* ------------------------------------------------------------- values
None == [k |-> "none", v |-> 0]
NaN == [k |-> "nan", v |-> 0]
Num(x) == [k |-> "num", v |-> x]

\* Python's == on two optional floats: nan is not equal to itself.
FloatEq(a, b) == a = b /\ a.k # "nan"

\* ------------------------------------------------------------- messages
\* a safe_float that lets nan through
safe_float_keep_nan(value) == value
\* normalize_ticker.safe_float
safe_float(value) ==
    IF value = None \/ value.k = "nan" THEN None ELSE value

\* pydantic (>= 2.0) validation of an Optional[int] field given a float:
\* an integral float is accepted, a fractional one is a validation error.
IntOk(value) == value.k = "none" \/ (value.k = "num" /\ value.v % 100 = 0)

\* a normalisation that names the event "quote"
normalize_ticker_quote(symbol, ticker) ==
    [event_type |-> "quote",
     symbol |-> symbol,
     bid |-> safe_float(ticker.bid),
     ask |-> safe_float(ticker.ask),
     last |-> safe_float(ticker.last),
     volume |-> safe_float(ticker.volume),
     timestamp |-> ticker.time]
\* normalize_ticker(ticker) for the Ticker of the contract of `symbol`
normalize_ticker(symbol, ticker) ==
    [event_type |-> "top_of_book",
     symbol |-> symbol,
     bid |-> safe_float(ticker.bid),
     ask |-> safe_float(ticker.ask),
     last |-> safe_float(ticker.last),
     volume |-> safe_float(ticker.volume),
     timestamp |-> ticker.time]

\* TopOfBookMessage(**snapshot_dict): <<message>>, or <<>> when it raises
TopOfBookMessage(d) == IF IntOk(d.volume) THEN <<d>> ELSE <<>>

\* snapshot != prev_snapshot (pydantic compares field by field)
SnapshotNe(a, b) ==
    \/ a.event_type # b.event_type
    \/ a.symbol # b.symbol
    \/ ~FloatEq(a.bid, b.bid)
    \/ ~FloatEq(a.ask, b.ask)
    \/ ~FloatEq(a.last, b.last)
    \/ ~FloatEq(a.volume, b.volume)
    \/ a.timestamp # b.timestamp

\* An item of the queue: the message, and for the histories the number of
\* its construction and who constructed it: a monitor task, or a depth
\* callback in one of its invocations.
Item(n, src, message) == [id |-> n, src |-> src, m |-> message]
TaskSrc(self) == [by |-> "task", n |-> self, call |-> 0]
CallbackSrc(c, k) == [by |-> "callback", n |-> c, call |-> k]

\* ------------------------------------------------------------- queue
\* a put on a queue without capacity, and a put that drops the item when
\* the queue is full
put_unbounded(q, item) == [done |-> TRUE, queue |-> Append(q, item)]
put_drop(q, item) ==
    IF Len(q) < QueueMaxsize
    THEN [done |-> TRUE, queue |-> Append(q, item)]
    ELSE [done |-> TRUE, queue |-> q]
\* asyncio.Queue.put up to its suspension: the item is appended when the
\* queue is not full; otherwise the caller waits in _putters (done = FALSE).
put(q, item) ==
    IF Len(q) < QueueMaxsize
    THEN [done |-> TRUE, queue |-> Append(q, item)]
    ELSE [done |-> FALSE, queue |-> q]

\* a registry that keeps the entries it had under the key
dict_add(d, entry) == d \cup {entry}
\* dict[key] = entry on a registry
DictSet(d, entry) == {e \in d : e.key # entry.key} \cup {entry}

\* ------------------------------------------------------------- tasks
NewTask(kind, symbol, tickType) ==
    [kind |-> kind, st |-> "start", symbol |-> symbol,
     prev_snapshot |-> <<>>, message |-> <<>>,
     tickType |-> tickType, last_processed_count |-> 0, new_ticks |-> <<>>,
     data |-> <<>>,
     \* history: what the last poll cycle read and whether it emitted, and
     \* whether the except branch of the monitor has ever run
     read |-> <<>>, emitted |-> FALSE, caught |-> FALSE]

IsHead(self) == ready # <<>> /\ Head(ready) = self

\* The callback at the head of the run queue has run.  When it has put an
\* item (put_nowait) while the consumer is suspended in get, the consumer is
\* woken: it becomes runnable behind what is ready.
Ran(has_put) ==
    /\ ready' = Tail(ready) \o
                   (IF has_put /\ consumer = "get" THEN <<0>> ELSE <<>>)
    /\ consumer' = IF has_put /\ consumer = "get" THEN "ready" ELSE consumer

Monitors ==
    {t \in DOMAIN tasks : tasks[t].kind \in {"monitor", "monitor_ticks"}}

\* ------------------------------------------------------------- adapter
Init ==
    /\ ib = "none"
    /\ contracts = {}
    /\ ticker_subs = {}
    /\ l2_depth_subs = {}
    /\ queue = <<>>
    /\ putters = <<>>
    /\ ready = <<>>
    /\ consumer = "away"
    /\ tasks = <<>>
    /\ quote = [s \in {} |-> None]
    /\ tickByTicks = [s \in {} |-> <<>>]
    /\ dom = [s \in {} |-> <<>>]
    /\ updateEvent = <<>>
    /\ calls = <<>>
    /\ upstream = {}
    /\ log = <<>>
    /\ nreq = 0
    /\ called = [op |-> "", symbol |-> "", raised |-> "", numRows |-> 0,
                 rejected |-> "no"]
    /\ nupd = 0
    /\ nmsg = 0
    /\ delivered = <<>>
    /\ dequeued = <<>>

\* connect(): self.ib = IB(); connectAsync succeeds
connect ==
    /\ ib = "none"
    /\ ib' = "connected"
    /\ UNCHANGED <<contracts, called, registry, requests, feed, loop>>

\* A Ticker the feed has not written yet: every field is nan, no time.
EmptyTicker ==
    [bid |-> NaN, ask |-> NaN, last |-> NaN, volume |-> NaN, time |-> None]

\* a registration that forgets the contracts registered before
contracts_only(registered, symbol_list) == symbol_list
\* self.contracts[sym] = contract for every sym of symbol_list (lines 78-80)
contracts_set(registered, symbol_list) == registered \cup symbol_list

\* define_contracts(symbol_list); the feed keeps one Ticker for each
\* contract
define_contracts(symbol_list) ==
    /\ contracts' = contracts_set(contracts, symbol_list)
    /\ quote' = [s \in DOMAIN quote \cup symbol_list |->
                   IF s \in DOMAIN quote THEN quote[s] ELSE EmptyTicker]
    /\ tickByTicks' = [s \in DOMAIN quote \cup symbol_list |->
                   IF s \in DOMAIN quote THEN tickByTicks[s] ELSE <<>>]
    /\ dom' = [s \in DOMAIN quote \cup symbol_list |->
                   IF s \in DOMAIN quote THEN dom[s]
                   ELSE [domBids |-> <<>>, domAsks |-> <<>>]]
    /\ UNCHANGED <<ib, called, registry, requests, updateEvent, calls, nupd,
                   loop>>

\* a check of the symbol that every symbol passes
defined_any(symbol) == TRUE
\* `symbol in self.contracts`, the check every subscribe_* and request_*
\* operation begins with
defined(symbol) == symbol \in contracts

\* What an operation on a symbol raises before it has any effect:
\* ValueError for a symbol without contract; for a symbol with one,
\* AttributeError at self.ib.req... when there is no IB object and
\* ConnectionError from the IB object that is not connected.
Raises(symbol) ==
    IF ~defined(symbol) THEN "ValueError"
    ELSE IF ib = "none" THEN "AttributeError"
    ELSE IF ib = "disconnected" THEN "ConnectionError"
    ELSE ""

\* a call of the client: the operation, its symbol, the exception raised
\* to the caller; for subscribe_smart_depth its numRows and how the feed
\* rejected the smart-depth request, if it did
Call(op, symbol, raised) ==
    [op |-> op, symbol |-> symbol, raised |-> raised, numRows |-> 0,
     rejected |-> "no"]

\* the operation raises to its caller before any effect
Fails(op, symbol) ==
    /\ called' = Call(op, symbol, Raises(symbol))
    /\ UNCHANGED <<ib, contracts, registry, requests, feed, loop>>

\* subscribe_top_of_book(symbol)
subscribe_top_of_book(symbol) ==
    IF Raises(symbol) # ""
    THEN Fails("subscribe_top_of_book", symbol)
    ELSE
        /\ called' = Call("subscribe_top_of_book", symbol, "")
        /\ nreq' = nreq + 1
        /\ upstream' = upstream \cup
               {[req |-> nreq + 1, symbol |-> symbol, kind |-> "mktData"]}
        /\ tasks' = Append(tasks, NewTask("monitor", symbol, ""))
        /\ ready' = Append(ready, Len(tasks) + 1)
        /\ ticker_subs' = DictSet(ticker_subs,
               [key |-> symbol, ticker |-> symbol, kind |-> "quotes",
                req |-> nreq + 1])
        /\ UNCHANGED <<ib, contracts, l2_depth_subs, feed, log, queue,
                       putters, consumer, nmsg, delivered, dequeued>>

\* a monitor without the try block: the exception ends the task
except_end(T, raised) ==
    IF raised THEN [T EXCEPT !.st = "failed", !.caught = TRUE]
    ELSE [T EXCEPT !.st = "sleep"]
\* The end of a cycle of monitor() that puts nothing: an exception raised in
\* the try block is caught and logged (lines 98-99); then the sleep of line
\* 100.
except_sleep(T, raised) ==
    [T EXCEPT !.st = "sleep", !.caught = @ \/ raised]

\* One callback of the loop running the task monitor() of
\* subscribe_top_of_book from where it was suspended to its next
\* suspension: the read and the put of lines 93-97, or the put resumed.
monitor(self) ==
    /\ IsHead(self)
    /\ tasks[self].kind = "monitor"
    /\ LET T == tasks[self]
           raw == quote[T.symbol]
           built == IF T.st = "put" THEN <<>>
                    ELSE TopOfBookMessage(normalize_ticker(T.symbol, raw))
           emit == /\ built # <<>>
                   /\ \/ T.prev_snapshot = <<>>
                      \/ SnapshotNe(built[1], T.prev_snapshot[1])
           item == IF T.st = "put" THEN T.message[1]
                   ELSE Item(nmsg + 1, TaskSrc(self), built[1])
           r == put(queue, item)
       IN  IF T.st = "put" \/ emit
           THEN /\ queue' = r.queue
                /\ delivered' = IF r.done THEN Append(delivered, item)
                                 ELSE delivered
                /\ putters' = IF r.done THEN putters
                               ELSE Append(putters, self)
                /\ nmsg' = IF T.st = "put" THEN nmsg ELSE nmsg + 1
                /\ tasks' = [tasks EXCEPT ![self] =
                       [T EXCEPT !.st = IF r.done THEN "sleep" ELSE "put",
                                 !.message = IF r.done THEN <<>> ELSE <<item>>,
                                 !.prev_snapshot =
                                     IF T.st = "put" THEN @ ELSE built,
                                 !.read = IF T.st = "put" THEN @ ELSE <<raw>>,
                                 !.emitted = IF T.st = "put" THEN @ ELSE TRUE]]
                /\ Ran(r.done)
           ELSE /\ tasks' = [tasks EXCEPT ![self] =
                       [except_sleep(T, built = <<>>) EXCEPT
                           !.read = <<raw>>, !.emitted = FALSE]]
                /\ Ran(FALSE)
                /\ UNCHANGED <<queue, delivered, putters, nmsg>>
    /\ UNCHANGED <<ib, contracts, called, registry, requests, feed, dequeued>>

\* asyncio.sleep of a monitor ends: the timer makes the task runnable
timer(self) ==
    /\ tasks[self].st = "sleep"
    /\ tasks' = [tasks EXCEPT ![self].st = "loop"]
    /\ ready' = Append(ready, self)
    /\ UNCHANGED <<ib, contracts, called, registry, requests, feed, queue, putters,
                   consumer, nmsg, delivered, dequeued>>

\* The consumer comes back from its other work (a timer, its own I/O) to
\* call queue.get(): it becomes runnable.
consumer_ready ==
    /\ consumer = "away"
    /\ consumer' = "ready"
    /\ ready' = Append(ready, 0)
    /\ UNCHANGED <<ib, contracts, called, registry, requests, feed, queue, putters,
                   tasks, nmsg, delivered, dequeued>>

\* One callback of the loop running the consumer.  On the empty queue its
\* queue.get() suspends.  Otherwise it gets k items without suspending, each
\* get_nowait waking the first waiting putter (its task becomes runnable);
\* then it goes to its other work, or, having emptied the queue, suspends in
\* the next get when `again`.
get(k, again) ==
    /\ IsHead(0)
    /\ IF queue = <<>>
       THEN /\ consumer' = "get"
            /\ ready' = Tail(ready)
            /\ UNCHANGED <<queue, dequeued, putters>>
       ELSE /\ k \in 1..Len(queue)
            /\ again => k = Len(queue)
            /\ queue' = SubSeq(queue, k + 1, Len(queue))
            /\ dequeued' = dequeued \o SubSeq(queue, 1, k)
            /\ LET w == IF k < Len(putters) THEN k ELSE Len(putters)
               IN  /\ ready' = Tail(ready) \o SubSeq(putters, 1, w)
                   /\ putters' = SubSeq(putters, w + 1, Len(putters))
            /\ consumer' = IF again THEN "get" ELSE "away"
    /\ UNCHANGED <<ib, contracts, called, registry, requests, feed, tasks, nmsg,
                   delivered>>

\* the numbers of items the consumer may get in one callback
Gets == 1..QueueMaxsize

\* The feed writes the fields w of a symbol's Ticker (one batch of ticks).
feed_quote(sym, w) ==
    /\ ib = "connected"
    /\ \E u \in upstream : u.symbol = sym /\ u.kind = "mktData"
    /\ \E f \in DOMAIN w : quote[sym][f] # w[f]
    /\ quote' = [quote EXCEPT ![sym] =
                   [f \in DOMAIN @ |-> IF f \in DOMAIN w THEN w[f] ELSE @[f]]]
    /\ nupd' = nupd + 1
    /\ UNCHANGED <<ib, contracts, called, registry, requests, tickByTicks, dom,
                   updateEvent, calls, loop>>

\* ------------------------------------------------------------- teardown
\* the entries of a registry in the order of their requests
RECURSIVE InOrder(_)
InOrder(d) ==
    IF d = {} THEN <<>>
    ELSE LET e == CHOOSE x \in d : \A y \in d : x.req <= y.req
         IN  <<e>> \o InOrder(d \ {e})

\* the request self.ib ends for a cancel of kind `kind` on a symbol's
\* Ticker: the last one it started, if any
Ended(up, sym, kind) ==
    {u \in up : /\ u.symbol = sym /\ u.kind = kind
                /\ \A w \in up : w.symbol = sym /\ w.kind = kind
                                   => w.req <= u.req}

\* cleanup_subscriptions(): S is the adapter and feed state it works on,
\* failing the keys whose cancel raises.  Every entry of ticker_subs gets
\* cancelMktData, every entry of l2_depth_subs cancelMktDepth with
\* isSmartDepth=False; an exception is logged and the loop goes on; then
\* both registries are cleared.
\* a sweep that ends at the first cancel that raises
RECURSIVE cancel_each_abort(_, _, _, _)
cancel_each_abort(entries, op, S, failing) ==
    IF entries = <<>> THEN S
    ELSE LET e == Head(entries)
             kind == IF op = "cancelMktData" THEN "mktData" ELSE "mktDepth"
             ok == e.key \notin failing
             S1 == [S EXCEPT
                      !.log = Append(@, [op |-> op, key |-> e.key, ok |-> ok,
                                         isSmartDepth |-> FALSE]),
                      !.upstream = IF ok THEN @ \ Ended(@, e.ticker, kind)
                                   ELSE @]
         IN  IF ok THEN cancel_each_abort(Tail(entries), op, S1, failing)
             ELSE S1
RECURSIVE cancel_each(_, _, _, _)
cancel_each(entries, op, S, failing) ==
    IF entries = <<>> THEN S
    ELSE LET e == Head(entries)
             kind == IF op = "cancelMktData" THEN "mktData" ELSE "mktDepth"
             ok == e.key \notin failing
             S1 == [S EXCEPT
                      !.log = Append(@, [op |-> op, key |-> e.key, ok |-> ok,
                                         isSmartDepth |-> FALSE]),
                      !.upstream = IF ok THEN @ \ Ended(@, e.ticker, kind)
                                   ELSE @]
         IN  cancel_each(Tail(entries), op, S1, failing)

cleanup_subscriptions(S, failing) ==
    LET S1 == cancel_each(InOrder(S.ticker_subs), "cancelMktData", S, failing)
        S2 == cancel_each(InOrder(S.l2_depth_subs), "cancelMktDepth", S1,
                          failing)
    IN  [S2 EXCEPT !.ticker_subs = {}, !.l2_depth_subs = {}]

\* self.ib.disconnect(): the connection is released; the event records how
\* many registry entries there are at that moment
ib_disconnect(S) ==
    [S EXCEPT !.log = Append(@, [op |-> "disconnect", key |-> "",
                  ok |-> S.ticker_subs = {} /\ S.l2_depth_subs = {},
                  isSmartDepth |-> FALSE]),
              !.upstream = {},
              !.ib = "disconnected"]

\* a disconnect() that releases the connection before the sweep
disconnect_release_first(S, failing) ==
    cleanup_subscriptions(ib_disconnect(S), failing)
\* the body of disconnect() when self.ib is set
disconnect_body(S, failing) ==
    ib_disconnect(cleanup_subscriptions(S, failing))

\* disconnect()
disconnect(failing) ==
    /\ ib # "none"
    /\ failing \subseteq {e.key : e \in ticker_subs \cup l2_depth_subs}
    /\ LET S == disconnect_body(
                   [ib |-> ib, ticker_subs |-> ticker_subs,
                    l2_depth_subs |-> l2_depth_subs, upstream |-> upstream,
                    log |-> <<>>], failing)
       IN  /\ ib' = S.ib
           /\ ticker_subs' = S.ticker_subs
           /\ l2_depth_subs' = S.l2_depth_subs
           /\ upstream' = S.upstream
           /\ log' = S.log
    /\ called' = Call("disconnect", "", "")
    /\ UNCHANGED <<contracts, nreq, feed, loop>>

\* ------------------------------------------------------------- ticks
\* str.lower() of the tick types of the feed
lower == [Last |-> "last", AllLast |-> "alllast", BidAsk |-> "bidask",
          MidPoint |-> "midpoint"]

\* TickByTickMessage(...) of lines 131-138: <<message>>, or <<>> when the
\* validation of the size (Optional[int]) raises
TickByTickMessage(symbol, tickType, tick) ==
    IF IntOk(tick.size)
    THEN <<[event_type |-> "tick_by_tick_" \o lower[tickType],
            symbol |-> symbol,
            time |-> tick.time,
            price |-> tick.price,
            size |-> tick.size,
            tickAttrib |-> tick.tickAttribLast]>>
    ELSE <<>>

\* The for loop of lines 130-139 from its current position up to its end,
\* to the first put that has to wait, or to the first message whose
\* construction raises (no try block is around it): n is the number of
\* messages constructed so far, q the queue.
RECURSIVE for_tick(_, _, _, _)
for_tick(self, q, new_ticks, n) ==
    IF new_ticks = <<>>
    THEN [queue |-> q, new_ticks |-> <<>>, message |-> <<>>, nmsg |-> n,
          put |-> <<>>, raised |-> FALSE]
    ELSE LET T == tasks[self]
             built == TickByTickMessage(T.symbol, T.tickType, Head(new_ticks))
             message == Item(n + 1, TaskSrc(self), built[1])
             r == put(q, message)
         IN  IF built = <<>>
             THEN [queue |-> q, new_ticks |-> new_ticks, message |-> <<>>,
                   nmsg |-> n, put |-> <<>>, raised |-> TRUE]
             ELSE IF r.done
             THEN LET rest == for_tick(self, r.queue, Tail(new_ticks), n + 1)
                  IN  [rest EXCEPT !.put = <<message>> \o @]
             ELSE [queue |-> q, new_ticks |-> Tail(new_ticks),
                   message |-> <<message>>, nmsg |-> n + 1, put |-> <<>>,
                   raised |-> FALSE]

\* subscribe_tick_by_tick(symbol, tickType)
subscribe_tick_by_tick(symbol, tickType) ==
    IF Raises(symbol) # ""
    THEN Fails("subscribe_tick_by_tick", symbol)
    ELSE
        /\ called' = Call("subscribe_tick_by_tick", symbol, "")
        /\ nreq' = nreq + 1
        /\ upstream' = upstream \cup
               {[req |-> nreq + 1, symbol |-> symbol, kind |-> "tickByTick"]}
        /\ ticker_subs' = DictSet(ticker_subs,
               [key |-> symbol \o "_tick_" \o tickType, ticker |-> symbol,
                kind |-> "ticks", req |-> nreq + 1])
        /\ tasks' = Append(tasks, NewTask("monitor_ticks", symbol, tickType))
        /\ ready' = Append(ready, Len(tasks) + 1)
        /\ UNCHANGED <<ib, contracts, l2_depth_subs, feed, log, queue,
                       putters, consumer, nmsg, delivered, dequeued>>

\* a slice that takes the new ticks last first
slice_reversed(list, count) ==
    [i \in 1..(Len(list) - count) |-> list[Len(list) + 1 - i]]
\* ticker.tickByTicks[last_processed_count:] of line 128
slice(list, count) == SubSeq(list, count + 1, Len(list))

\* last_processed_count = len(ticker.tickByTicks) of line 141
count_after(self) == Len(tickByTicks[tasks[self].symbol])

\* One callback of the loop running the task monitor_ticks() from where it
\* was suspended to its next suspension, or to its end by an exception.
monitor_ticks(self) ==
    /\ IsHead(self)
    /\ tasks[self].kind = "monitor_ticks"
    /\ LET T == tasks[self]
           list == tickByTicks[T.symbol]
           new == list # <<>> /\ Len(list) > T.last_processed_count
           \* the put resumed (line 139), or the slice of line 128
           retry == IF T.st = "put" THEN put(queue, T.message[1])
                    ELSE [done |-> TRUE, queue |-> queue]
           new_ticks == IF T.st = "put" THEN T.new_ticks
                        ELSE slice(list, T.last_processed_count)
           r == for_tick(self, retry.queue, new_ticks, nmsg)
           resumed == IF T.st = "put" THEN T.message ELSE <<>>
       IN  IF T.st = "start" \/ (T.st = "loop" /\ ~new)
           THEN /\ tasks' = [tasks EXCEPT ![self].st = "sleep"]
                /\ Ran(FALSE)
                /\ UNCHANGED <<queue, putters, nmsg, delivered>>
           ELSE IF ~retry.done
           THEN /\ putters' = Append(putters, self)
                /\ Ran(FALSE)
                /\ UNCHANGED <<queue, tasks, nmsg, delivered>>
           ELSE /\ queue' = r.queue
                /\ Ran(resumed \o r.put # <<>>)
                /\ delivered' = delivered \o resumed \o r.put
                /\ nmsg' = r.nmsg
                /\ putters' = IF r.message = <<>> THEN putters
                               ELSE Append(putters, self)
                /\ tasks' = [tasks EXCEPT ![self] =
                       [T EXCEPT
                          !.st = IF r.raised THEN "failed"
                                 ELSE IF r.message = <<>> THEN "sleep"
                                 ELSE "put",
                          !.message = r.message,
                          !.new_ticks = r.new_ticks,
                          !.last_processed_count =
                              IF r.message = <<>> /\ ~r.raised
                              THEN count_after(self)
                              ELSE @]]
    /\ UNCHANGED <<ib, contracts, called, registry, requests, feed, dequeued>>

\* The feed appends one tick to a symbol's tickByTicks list; ticks carry
\* the time of their arrival.
feed_tick(sym, price, size) ==
    /\ ib = "connected"
    /\ \E u \in upstream : u.symbol = sym /\ u.kind = "tickByTick"
    /\ tickByTicks' = [tickByTicks EXCEPT ![sym] =
           Append(@, [time |-> Len(@) + 1, price |-> price, size |-> size,
                      tickAttribLast |-> [pastLimit |-> FALSE,
                                          unreported |-> FALSE]])]
    /\ UNCHANGED <<ib, contracts, called, registry, requests, quote, dom,
                   updateEvent, calls, nupd, loop>>

\* The feed begins a new tickByTicks list for a symbol's Ticker.
feed_reset(sym) ==
    /\ ib = "connected"
    /\ \E u \in upstream : u.symbol = sym /\ u.kind = "tickByTick"
    /\ tickByTicks[sym] # <<>>
    /\ tickByTicks' = [tickByTicks EXCEPT ![sym] = <<>>]
    /\ nupd' = nupd + 1
    /\ UNCHANGED <<ib, contracts, called, registry, requests, quote, dom,
                   updateEvent, calls, loop>>

TickSymbols == {"AAPL"}
TickTypes == {"Last"}
TickPrices == {Num(15025)}
TickSizes == {Num(10000)}

\* what a specification allows next: so many monitors, callbacks, requests
MoreMonitors(kind, max) ==
    Cardinality({t \in Monitors : tasks[t].kind = kind}) < max
MoreListeners(max) == Len(updateEvent) < max

NextTicks ==
    \/ connect
    \/ \E sym \in TickSymbols : define_contracts({sym})
    \/ /\ MoreMonitors("monitor_ticks", MaxTickMonitors)
       /\ \E sym \in TickSymbols, tt \in TickTypes :
             subscribe_tick_by_tick(sym, tt)
    \/ \E self \in DOMAIN tasks : monitor_ticks(self)
    \/ \E self \in DOMAIN tasks : timer(self)
    \/ \E sym \in contracts, p \in TickPrices, z \in TickSizes :
          Len(tickByTicks[sym]) < MaxTicks /\ feed_tick(sym, p, z)
    \/ consumer_ready
    \/ \E k \in Gets, again \in BOOLEAN : get(k, again)

SpecTicks == Init /\ [][NextTicks]_vars

\* the sizes of a feed that reports fractions of a share at times
FeedSizes == {Num(10000), Num(50)}

\* The tick monitor on a feed that reports fractional sizes and begins its
\* list anew.
NextTickFeed ==
    \/ connect
    \/ \E sym \in TickSymbols : define_contracts({sym})
    \/ /\ MoreMonitors("monitor_ticks", MaxTickMonitors)
       /\ \E sym \in TickSymbols, tt \in TickTypes :
             subscribe_tick_by_tick(sym, tt)
    \/ \E self \in DOMAIN tasks : monitor_ticks(self)
    \/ \E self \in DOMAIN tasks : timer(self)
    \/ \E sym \in contracts, p \in TickPrices, z \in FeedSizes :
          Len(tickByTicks[sym]) < MaxStreamTicks /\ feed_tick(sym, p, z)
    \/ \E sym \in contracts : nupd < MaxResets /\ feed_reset(sym)
    \/ consumer_ready
    \/ \E k \in Gets, again \in BOOLEAN : get(k, again)

SpecTickFeed == Init /\ [][NextTickFeed]_vars

\* ------------------------------------------------------------- depth
\* a depth message that tells an insert
MarketDepthMessage_insert(symbol, position, side, level) ==
    [event_type |-> "market_depth", symbol |-> symbol,
     position |-> position, operation |-> 0, side |-> side,
     price |-> level.price, size |-> level.size]
\* MarketDepthMessage(...) of lines 164-171 and 176-183; the sizes of a
\* stock's book are whole numbers of shares, which the int field accepts
MarketDepthMessage(symbol, position, side, level) ==
    [event_type |-> "market_depth", symbol |-> symbol,
     position |-> position, operation |-> 1, side |-> side,
     price |-> level.price, size |-> level.size]

\* a callback that counts the positions from 1
on_depth_update_from_one(symbol, ticker) ==
    [i \in 1..Len(ticker.domBids) |->
        MarketDepthMessage(symbol, i, 0, ticker.domBids[i])]
    \o [i \in 1..Len(ticker.domAsks) |->
        MarketDepthMessage(symbol, i, 1, ticker.domAsks[i])]
\* The messages one invocation of on_depth_update constructs, in the order
\* of their construction; enumerate() counts from 0.
on_depth_update(symbol, ticker) ==
    [i \in 1..Len(ticker.domBids) |->
        MarketDepthMessage(symbol, i - 1, 0, ticker.domBids[i])]
    \o [i \in 1..Len(ticker.domAsks) |->
        MarketDepthMessage(symbol, i - 1, 1, ticker.domAsks[i])]

\* the same for on_smart_depth_update
on_smart_depth_update(symbol, ticker) ==
    [i \in 1..Len(ticker.domBids) |->
        MarketDepthMessage(symbol, i - 1, 0, ticker.domBids[i])]
    \o [i \in 1..Len(ticker.domAsks) |->
        MarketDepthMessage(symbol, i - 1, 1, ticker.domAsks[i])]

\* subscribe_order_book(symbol, numRows) past its check of the symbol
order_book(symbol, numRows) ==
    /\ nreq' = nreq + 1
    /\ upstream' = upstream \cup
           {[req |-> nreq + 1, symbol |-> symbol, kind |-> "mktDepth",
             isSmartDepth |-> FALSE, numRows |-> numRows]}
    /\ l2_depth_subs' = DictSet(l2_depth_subs,
           [key |-> symbol, ticker |-> symbol, kind |-> "depth",
            req |-> nreq + 1])
    /\ updateEvent' = Append(updateEvent,
           [ticker |-> symbol, symbol |-> symbol, smart |-> FALSE])
    /\ UNCHANGED <<ib, contracts, ticker_subs, quote, tickByTicks, dom,
                   calls, nupd, log, loop>>

\* subscribe_order_book(symbol, numRows)
subscribe_order_book(symbol, numRows) ==
    IF Raises(symbol) # ""
    THEN Fails("subscribe_order_book", symbol)
    ELSE /\ called' = Call("subscribe_order_book", symbol, "")
         /\ order_book(symbol, numRows)

\* How the feed answers reqMktDepth(isSmartDepth=True) for a symbol: it
\* accepts ("no"), or it rejects the request, and then either the call
\* raises ("raises") or the call returns the Ticker and the rejection is
\* reported as an error event of the connection ("error").
Rejections == {"no", "raises", "error"}

\* subscribe_smart_depth(symbol, numRows) with the feed's answer.  The try
\* block falls back to subscribe_order_book when reqMktDepth raises; a
\* request rejected by an error event is not open at the feed, and the try
\* block completes.  Without connection reqMktDepth raises and so does the
\* fallback's, to the caller.
subscribe_smart_depth(symbol, numRows, rejected) ==
    IF Raises(symbol) # ""
    THEN Fails("subscribe_smart_depth", symbol)
    ELSE IF rejected = "raises"
    THEN /\ called' = [Call("subscribe_smart_depth", symbol, "") EXCEPT
                          !.numRows = numRows, !.rejected = rejected]
         /\ order_book(symbol, numRows)
    ELSE
        /\ called' = [Call("subscribe_smart_depth", symbol, "") EXCEPT
                         !.numRows = numRows, !.rejected = rejected]
        /\ nreq' = nreq + 1
        /\ upstream' = upstream \cup
               (IF rejected = "error" THEN {}
                ELSE {[req |-> nreq + 1, symbol |-> symbol,
                       kind |-> "mktDepth", isSmartDepth |-> TRUE,
                       numRows |-> numRows]})
        /\ l2_depth_subs' = DictSet(l2_depth_subs,
               [key |-> symbol \o "_smart", ticker |-> symbol,
                kind |-> "smart_depth", req |-> nreq + 1])
        /\ updateEvent' = Append(updateEvent,
               [ticker |-> symbol, symbol |-> symbol, smart |-> TRUE])
        /\ UNCHANGED <<ib, contracts, ticker_subs, quote, tickByTicks, dom,
                       calls, nupd, log, loop>>

\* the callbacks connected to the updateEvent of a symbol's Ticker, from
\* the c-th on
RECURSIVE Connected(_, _)
Connected(sym, c) ==
    IF c > Len(updateEvent) THEN <<>>
    ELSE (IF updateEvent[c].ticker = sym THEN <<c>> ELSE <<>>)
         \o Connected(sym, c + 1)

\* updateEvent.emit(ticker): the callbacks cs run one after the other; each
\* constructs its messages and creates one task per message (lines 172,
\* 184).  n: messages constructed before, k: invocations before.
RECURSIVE emit(_, _, _, _)
emit(cs, ticker, n, k) ==
    IF cs = <<>> THEN <<>>
    ELSE LET c == Head(cs)
             msgs == IF updateEvent[c].smart
                     THEN on_smart_depth_update(updateEvent[c].symbol, ticker)
                     ELSE on_depth_update(updateEvent[c].symbol, ticker)
         IN  [i \in 1..Len(msgs) |->
                 Item(n + i, CallbackSrc(c, k + 1), msgs[i])]
             \o emit(Tail(cs), ticker, n + Len(msgs), k + 1)

\* an update whose callbacks drop the registry entries of their Ticker
feed_depth_unsubscribing(sym, book) ==
    /\ ib = "connected"
    /\ \E u \in upstream : u.symbol = sym /\ u.kind = "mktDepth"
    /\ nupd < MaxDepthUpdates
    /\ nupd' = nupd + 1
    /\ dom' = [dom EXCEPT ![sym] = book]
    /\ LET cs == Connected(sym, 1)
           items == emit(cs, book, nmsg, Len(calls))
       IN  /\ Len(tasks) + Len(items) <= MaxPutTasks
           /\ calls' = calls \o
                  [j \in 1..Len(cs) |->
                      [cb |-> cs[j], domBids |-> book.domBids,
                       domAsks |-> book.domAsks]]
           /\ tasks' = tasks \o
                  [i \in 1..Len(items) |->
                      [NewTask("put", sym, "") EXCEPT !.message = <<items[i]>>]]
           /\ ready' = ready \o
                  [i \in 1..Len(items) |-> Len(tasks) + i]
           /\ nmsg' = nmsg + Len(items)
    /\ l2_depth_subs' = {e \in l2_depth_subs : e.ticker # sym}
    /\ UNCHANGED <<ib, contracts, called, ticker_subs, requests, quote,
                   tickByTicks, updateEvent, queue, putters, consumer,
                   delivered, dequeued>>
\* The feed replaces the ladders of a symbol's Ticker and emits its
\* updateEvent.
feed_depth(sym, book) ==
    /\ ib = "connected"
    /\ \E u \in upstream : u.symbol = sym /\ u.kind = "mktDepth"
    /\ nupd < MaxDepthUpdates
    /\ nupd' = nupd + 1
    /\ dom' = [dom EXCEPT ![sym] = book]
    /\ LET cs == Connected(sym, 1)
           items == emit(cs, book, nmsg, Len(calls))
       IN  /\ Len(tasks) + Len(items) <= MaxPutTasks
           /\ calls' = calls \o
                  [j \in 1..Len(cs) |->
                      [cb |-> cs[j], domBids |-> book.domBids,
                       domAsks |-> book.domAsks]]
           /\ tasks' = tasks \o
                  [i \in 1..Len(items) |->
                      [NewTask("put", sym, "") EXCEPT !.message = <<items[i]>>]]
           /\ ready' = ready \o
                  [i \in 1..Len(items) |-> Len(tasks) + i]
           /\ nmsg' = nmsg + Len(items)
    /\ UNCHANGED <<ib, contracts, called, registry, requests, quote, tickByTicks,
                   updateEvent, queue, putters, consumer, delivered,
                   dequeued>>

\* One callback of the loop running a task created for queue.put(message)
\* by a depth callback: it completes, or waits for space.
put_task(self) ==
    /\ IsHead(self)
    /\ tasks[self].kind = "put"
    /\ LET r == put(queue, tasks[self].message[1])
       IN  /\ queue' = r.queue
           /\ delivered' = IF r.done
                            THEN Append(delivered, tasks[self].message[1])
                            ELSE delivered
           /\ putters' = IF r.done THEN putters ELSE Append(putters, self)
           /\ tasks' = [tasks EXCEPT ![self].st =
                             IF r.done THEN "done" ELSE "put"]
           /\ Ran(r.done)
    /\ UNCHANGED <<ib, contracts, called, registry, requests, feed, nmsg, dequeued>>

Level(price, size) == [price |-> Num(price), size |-> Num(size)]
DepthSymbols == {"AAPL"}
DepthRows == {5}
DepthBooks ==
    {[domBids |-> <<Level(15025, 10000)>>,
      domAsks |-> <<Level(15026, 20000)>>],
     [domBids |-> <<Level(15025, 10000), Level(15024, 30000)>>,
      domAsks |-> <<Level(15026, 20000)>>]}

NextDepth ==
    \/ connect
    \/ \E sym \in DepthSymbols : define_contracts({sym})
    \/ /\ MoreListeners(MaxListeners)
       /\ \E sym \in DepthSymbols, rows \in DepthRows :
             subscribe_order_book(sym, rows)
    \/ /\ MoreListeners(MaxListeners)
       /\ \E sym \in DepthSymbols, rows \in DepthRows,
             rejected \in Rejections :
             subscribe_smart_depth(sym, rows, rejected)
    \/ \E sym \in DepthSymbols, book \in DepthBooks : feed_depth(sym, book)
    \/ \E self \in DOMAIN tasks : put_task(self)
    \/ consumer_ready
    \/ \E k \in Gets, again \in BOOLEAN : get(k, again)

SpecDepth == Init /\ [][NextDepth]_vars

\* ------------------------------------------------------------- quotes
QuoteSymbols == {"AAPL"}
QuoteWrites ==
    {[bid |-> Num(15025), ask |-> Num(15026)], [bid |-> None],
     [volume |-> Num(10050)], [volume |-> Num(10000)]}

\* the writes of the feed when the quotes are subscribed twice
Rewrites == {[bid |-> Num(15030)], [bid |-> None]}

NextQuotes ==
    \/ connect
    \/ \E sym \in QuoteSymbols : define_contracts({sym})
    \/ /\ MoreMonitors("monitor", MaxQuoteMonitors)
       /\ \E sym \in QuoteSymbols : subscribe_top_of_book(sym)
    \/ \E self \in DOMAIN tasks : monitor(self)
    \/ \E self \in DOMAIN tasks : timer(self)
    \/ /\ nupd < MaxQuoteUpdates
       /\ \E sym \in QuoteSymbols, w \in QuoteWrites : feed_quote(sym, w)
    \/ consumer_ready
    \/ \E k \in Gets, again \in BOOLEAN : get(k, again)

SpecQuotes == Init /\ [][NextQuotes]_vars

\* The client subscribes the quotes of a symbol again while its monitor
\* runs.
NextResubscribe ==
    \/ connect
    \/ \E sym \in QuoteSymbols : define_contracts({sym})
    \/ /\ MoreMonitors("monitor", MaxResubscribes)
       /\ \E sym \in QuoteSymbols : subscribe_top_of_book(sym)
    \/ \E self \in DOMAIN tasks : monitor(self)
    \/ \E self \in DOMAIN tasks : timer(self)
    \/ /\ nupd < MaxRewrites
       /\ \E sym \in QuoteSymbols, w \in Rewrites : feed_quote(sym, w)
    \/ consumer_ready
    \/ \E k \in Gets, again \in BOOLEAN : get(k, again)

SpecResubscribe == Init /\ [][NextResubscribe]_vars

\* the writes of a feed that reports a fractional volume at times
BadWrites == {[volume |-> Num(10050)], [volume |-> Num(10000)]}

\* The quote monitor on a feed some of whose reads make no snapshot.
NextBadReads ==
    \/ connect
    \/ \E sym \in QuoteSymbols : define_contracts({sym})
    \/ /\ MoreMonitors("monitor", MaxQuoteMonitors)
       /\ \E sym \in QuoteSymbols : subscribe_top_of_book(sym)
    \/ \E self \in DOMAIN tasks : monitor(self)
    \/ \E self \in DOMAIN tasks : timer(self)
    \/ /\ nupd < MaxBadReads
       /\ \E sym \in QuoteSymbols, w \in BadWrites : feed_quote(sym, w)
    \/ consumer_ready
    \/ \E k \in Gets, again \in BOOLEAN : get(k, again)

SpecBadReads == Init /\ [][NextBadReads]_vars

\* ------------------------------------------------------------- requests
Requests ==
    {t \in DOMAIN tasks : tasks[t].kind \in
        {"request_historical_data", "request_fundamental_data",
         "request_fundamental_ratios"}}

\* request_historical_data(symbol), request_fundamental_data(symbol,
\* reportType), request_fundamental_ratios(symbol) up to their await of the
\* feed; kind is the operation called
request(kind, symbol, reportType) ==
    IF Raises(symbol) # ""
    THEN Fails(kind, symbol)
    ELSE
        /\ called' = Call(kind, symbol, "")
        /\ tasks' = Append(tasks,
               [NewTask(kind, symbol, reportType) EXCEPT !.st = "await"])
        /\ UNCHANGED <<ib, contracts, registry, requests, feed, queue,
                       putters, ready, consumer, nmsg, delivered, dequeued>>

\* The feed answers a request: the awaiting operation becomes runnable.
feed_reply(self, data) ==
    /\ ib = "connected"
    /\ self \in Requests
    /\ tasks[self].st = "await"
    /\ tasks' = [tasks EXCEPT ![self].st = "loop", ![self].data = data]
    /\ ready' = Append(ready, self)
    /\ UNCHANGED <<ib, contracts, called, registry, requests, feed, queue, putters,
                   consumer, nmsg, delivered, dequeued>>

\* a bar with the feed's open and close in each other's place
HistoricalBar_swapped(bar) ==
    IF IntOk(bar.volume) /\ IntOk(bar.barCount)
    THEN <<[date |-> bar.date, open |-> bar.close, high |-> bar.high,
            low |-> bar.low, close |-> bar.open, volume |-> bar.volume,
            barCount |-> bar.barCount, average |-> bar.average]>>
    ELSE <<>>
\* HistoricalBar(...) of lines 285-294: <<bar>>, or <<>> when the validation
\* of volume (int) or barCount (Optional[int]) raises
HistoricalBar(bar) ==
    IF IntOk(bar.volume) /\ IntOk(bar.barCount)
    THEN <<[date |-> bar.date, open |-> bar.open, high |-> bar.high,
            low |-> bar.low, close |-> bar.close, volume |-> bar.volume,
            barCount |-> bar.barCount, average |-> bar.average]>>
    ELSE <<>>

\* a response that is a FundamentalRatiosResponse whatever was requested
Response_ratios(T) ==
    <<[event_type |-> "fundamental_ratios", symbol |-> T.symbol,
       data |-> T.data]>>
\* The response a request operation constructs from the feed's answer:
\* <<response>>, or <<>> when the construction of a bar raises.
Response(T) ==
    CASE T.kind = "request_historical_data" ->
           IF \A i \in 1..Len(T.data) : HistoricalBar(T.data[i]) # <<>>
           THEN <<[event_type |-> "historical_data", symbol |-> T.symbol,
                   bars |-> [i \in 1..Len(T.data) |->
                                HistoricalBar(T.data[i])[1]]]>>
           ELSE <<>>
      [] T.kind = "request_fundamental_data" ->
           <<[event_type |-> "fundamental_data", symbol |-> T.symbol,
              report_type |-> T.tickType, data |-> T.data]>>
      [] T.kind = "request_fundamental_ratios" ->
           <<[event_type |-> "fundamental_ratios", symbol |-> T.symbol,
              data |-> T.data]>>

\* One callback of the loop running a request operation after its await:
\* the response is constructed and put, or the put is resumed; an exception
\* of the construction ends the operation.
request_task(self) ==
    /\ IsHead(self)
    /\ self \in Requests
    /\ LET T == tasks[self]
           built == IF T.st = "put" THEN <<>> ELSE Response(T)
           item == IF T.st = "put" THEN T.message[1]
                   ELSE Item(nmsg + 1, TaskSrc(self), built[1])
           r == put(queue, item)
       IN  IF T.st # "put" /\ built = <<>>
           THEN /\ tasks' = [tasks EXCEPT ![self].st = "failed"]
                /\ Ran(FALSE)
                /\ UNCHANGED <<queue, delivered, putters, nmsg>>
           ELSE /\ queue' = r.queue
                /\ delivered' = IF r.done THEN Append(delivered, item)
                                 ELSE delivered
                /\ putters' = IF r.done THEN putters
                               ELSE Append(putters, self)
                /\ nmsg' = IF T.st = "put" THEN nmsg ELSE nmsg + 1
                /\ tasks' = [tasks EXCEPT ![self] =
                       [T EXCEPT !.st = IF r.done THEN "done" ELSE "put",
                                 !.message = IF r.done THEN <<>>
                                             ELSE <<item>>]]
                /\ Ran(r.done)
    /\ UNCHANGED <<ib, contracts, called, registry, requests, feed, dequeued>>

\* the answers of the feed: two bars, or a bar with a fractional volume
Bar(date, open, high, low, close, volume) ==
    [date |-> date, open |-> Num(open), high |-> Num(high),
     low |-> Num(low), close |-> Num(close), volume |-> Num(volume),
     barCount |-> Num(100), average |-> Num(close)]
Replies ==
    {<<Bar(1, 15020, 15030, 15010, 15025, 10000),
       Bar(2, 15025, 15040, 15020, 15030, 20000)>>,
     <<Bar(1, 15020, 15030, 15010, 15025, 10050)>>}
RequestKinds ==
    {<<"request_historical_data", "">>,
     <<"request_fundamental_data", "ReportSnapshot">>,
     <<"request_fundamental_ratios", "">>}

\* ------------------------------------------------------------- adapter
AdapterSymbols == {"AAPL", "PLTR"}
\* the calls of the client that passed their checks
Subscribes ==
    Cardinality(Monitors) + Len(updateEvent) + Cardinality(Requests)

\* The client's calls on the adapter: connect, subscribe, request,
\* disconnect.
NextAdapter ==
    \/ connect
    \/ \E symbol_list \in SUBSET AdapterSymbols :
          define_contracts(symbol_list)
    \/ /\ Subscribes < MaxSubscribes
       /\ \E sym \in AdapterSymbols : subscribe_top_of_book(sym)
    \/ /\ Subscribes < MaxSubscribes
       /\ \E sym \in AdapterSymbols, tt \in TickTypes :
             subscribe_tick_by_tick(sym, tt)
    \/ /\ Subscribes < MaxSubscribes
       /\ \E sym \in AdapterSymbols, rows \in DepthRows :
             subscribe_order_book(sym, rows)
    \/ /\ Subscribes < MaxSubscribes
       /\ \E sym \in AdapterSymbols, rows \in DepthRows,
             rejected \in Rejections :
             subscribe_smart_depth(sym, rows, rejected)
    \/ /\ Subscribes < MaxSubscribes
       /\ \E sym \in AdapterSymbols, k \in RequestKinds :
             request(k[1], sym, k[2])
    \/ \E failing \in SUBSET {e.key : e \in ticker_subs \cup l2_depth_subs} :
          disconnect(failing)

SpecAdapter == Init /\ [][NextAdapter]_vars

\* ------------------------------------------------------------- all producers
Symbols == {"AAPL"}
Writes == {[bid |-> Num(15025), ask |-> Num(15026)], [bid |-> None]}

\* the kinds of producer at work
Producers ==
    {tasks[t].kind : t \in DOMAIN tasks}
    \cup {"put" : c \in DOMAIN updateEvent}
Only(kinds) == Producers \subseteq kinds

\* Every kind of producer of the adapter on the queue, one kind in a run:
\* quote monitors, tick monitors, depth callbacks with their put tasks, or
\* request operations.
Next ==
    \/ connect
    \/ \E sym \in Symbols : define_contracts({sym})
    \/ /\ Only({"monitor"}) /\ MoreMonitors("monitor", MaxQuoteMonitors)
       /\ \E sym \in Symbols : subscribe_top_of_book(sym)
    \/ /\ Only({"monitor_ticks"})
       /\ MoreMonitors("monitor_ticks", MaxTickMonitors)
       /\ \E sym \in Symbols, tt \in TickTypes :
             subscribe_tick_by_tick(sym, tt)
    \/ /\ Only({"put"}) /\ MoreListeners(MaxListeners)
       /\ \E sym \in Symbols, rows \in DepthRows :
             subscribe_order_book(sym, rows)
    \/ /\ Only({"put"}) /\ MoreListeners(MaxListeners)
       /\ \E sym \in Symbols, rows \in DepthRows, rejected \in Rejections :
             subscribe_smart_depth(sym, rows, rejected)
    \/ /\ Only({k[1] : k \in RequestKinds})
       /\ Cardinality(Requests) < MaxRequests
       /\ \E sym \in Symbols, k \in RequestKinds : request(k[1], sym, k[2])
    \/ /\ nupd < MaxQuoteUpdates
       /\ \E sym \in Symbols, w \in Writes : feed_quote(sym, w)
    \/ \E sym \in contracts, p \in TickPrices, z \in TickSizes :
          Len(tickByTicks[sym]) < MaxStreamTicks /\ feed_tick(sym, p, z)
    \/ \E sym \in Symbols, book \in DepthBooks : feed_depth(sym, book)
    \/ \E self \in DOMAIN tasks, data \in Replies : feed_reply(self, data)
    \/ \E self \in DOMAIN tasks : monitor(self)
    \/ \E self \in DOMAIN tasks : monitor_ticks(self)
    \/ \E self \in DOMAIN tasks : put_task(self)
    \/ \E self \in DOMAIN tasks : request_task(self)
    \/ \E self \in DOMAIN tasks : timer(self)
    \/ consumer_ready
    \/ \E k \in Gets, again \in BOOLEAN : get(k, again)

Spec == Init /\ [][Next]_vars

\* The loop runs every callback that is ready (one at a time, the head of
\* its run queue), and the consumer keeps coming back to call get.
run ==
    \/ \E self \in DOMAIN tasks :
          \/ monitor(self)
          \/ monitor_ticks(self)
          \/ put_task(self)
          \/ request_task(self)
    \/ \E k \in Gets, again \in BOOLEAN : get(k, again)
Fairness == WF_vars(run) /\ WF_vars(consumer_ready)

SpecFair == Spec /\ Fairness
SpecQuotesFair == SpecQuotes /\ Fairness

\* ------------------------------------------------------------- teardown
\* The client disconnects while the monitors it started are at work.
NextTeardown ==
    \/ connect
    \/ \E sym \in Symbols : define_contracts({sym})
    \/ /\ MoreMonitors("monitor", MaxQuoteMonitors)
       /\ \E sym \in Symbols : subscribe_top_of_book(sym)
    \/ /\ MoreMonitors("monitor_ticks", MaxTickMonitors)
       /\ \E sym \in Symbols, tt \in TickTypes :
             subscribe_tick_by_tick(sym, tt)
    \/ /\ nupd < MaxQuoteUpdates
       /\ \E sym \in Symbols, w \in Writes : feed_quote(sym, w)
    \/ \E sym \in contracts, p \in TickPrices, z \in TickSizes :
          Len(tickByTicks[sym]) < MaxStreamTicks /\ feed_tick(sym, p, z)
    \/ \E self \in DOMAIN tasks : monitor(self)
    \/ \E self \in DOMAIN tasks : monitor_ticks(self)
    \/ \E self \in DOMAIN tasks : timer(self)
    \/ consumer_ready
    \/ \E k \in Gets, again \in BOOLEAN : get(k, again)
    \/ \E failing \in SUBSET {e.key : e \in ticker_subs \cup l2_depth_subs} :
          disconnect(failing)

SpecTeardown == Init /\ [][NextTeardown]_vars

\* Every kind of producer at work, and the client's disconnect().
NextOwners ==
    \/ Next
    \/ disconnect({})

SpecOwners == Init /\ [][NextOwners]_vars

\* symbols of which one is another followed by the suffix of a registry key
KeySymbols == {"AAPL", "AAPL_smart", "AAPL_tick_Last"}

\* The client's subscribe_* calls on symbols that look like registry keys.
NextKeys ==
    \/ connect
    \/ \E symbol_list \in SUBSET KeySymbols : define_contracts(symbol_list)
    \/ /\ Subscribes < MaxSubscribes
       /\ \E sym \in KeySymbols : subscribe_top_of_book(sym)
    \/ /\ Subscribes < MaxSubscribes
       /\ \E sym \in KeySymbols, tt \in TickTypes :
             subscribe_tick_by_tick(sym, tt)
    \/ /\ Subscribes < MaxSubscribes
       /\ \E sym \in KeySymbols, rows \in DepthRows :
             subscribe_order_book(sym, rows)
    \/ /\ Subscribes < MaxSubscribes
       /\ \E sym \in KeySymbols, rows \in DepthRows,
             rejected \in Rejections :
             subscribe_smart_depth(sym, rows, rejected)

SpecKeys == Init /\ [][NextKeys]_vars


\* ------------------------------------------------------------- histories
\* the items of a sequence that task or callback src constructed, in order
RECURSIVE FromSrc(_, _)
FromSrc(items, src) ==
    IF items = <<>> THEN <<>>
    ELSE (IF Head(items).src = src THEN <<Head(items)>> ELSE <<>>)
         \o FromSrc(Tail(items), src)

\* what task self has emitted: its items on the queue or consumed, and the
\* one it is suspended putting
Emitted(self) == FromSrc(delivered, TaskSrc(self)) \o tasks[self].message

\* ------------------------------------------------------------- claims

\* C1: no gap, no duplicate in the tick-by-tick monitor.  What a monitor
\* has emitted is at every moment the beginning of the feed's tick list,
\* entry by entry, and when a poll cycle is complete every entry below the
\* monitor's cursor (last_processed_count) has been emitted.
C1_NoGapNoDup ==
    \A self \in DOMAIN tasks :
        tasks[self].kind = "monitor_ticks" =>
            LET list == tickByTicks[tasks[self].symbol]
                E == Emitted(self)
            IN  /\ Len(E) <= Len(list)
                /\ \A i \in 1..Len(E) : E[i].m.time = list[i].time
                /\ tasks[self].st = "sleep" =>
                       Len(E) = tasks[self].last_processed_count

\* ---- the quote monitor
\* a field of the Ticker that holds no number: None or nan
Unknown(v) == v.k # "num"
SameField(a, b) == (Unknown(a) /\ Unknown(b)) \/ a = b
\* two reads of a Ticker are field-wise equal, unknown equal to unknown
SameRead(r1, r2) ==
    /\ SameField(r1.bid, r2.bid) /\ SameField(r1.ask, r2.ask)
    /\ SameField(r1.last, r2.last) /\ SameField(r1.volume, r2.volume)
    /\ r1.time = r2.time
\* a read of a Ticker is field-wise equal to a snapshot message
SameAs(raw, m) ==
    /\ SameField(raw.bid, m.bid) /\ SameField(raw.ask, m.ask)
    /\ SameField(raw.last, m.last) /\ SameField(raw.volume, m.volume)
    /\ raw.time = m.timestamp
\* this step is a poll cycle of the quote monitor self: the read of line 93
\* up to the next suspension
Polls(self) ==
    /\ tasks[self].kind = "monitor"
    /\ tasks[self].st \in {"start", "loop"}
    /\ tasks'[self].st # tasks[self].st
Last(seq) == seq[Len(seq)]

\* C2: dedup in the quote monitor.  In a poll cycle of a quote monitor, a
\* read that is field-wise equal to the snapshot the monitor emitted last
\* (unknown and nan fields equal to unknown), or to the read of its previous
\* cycle, emits nothing: no message is constructed, put or left pending.
C2_Dedup ==
    [][\A self \in DOMAIN tasks :
          Polls(self) =>
              LET E == Emitted(self)
                  raw == quote[tasks[self].symbol]
              IN  (\/ E # <<>> /\ SameAs(raw, Last(E).m)
                   \/ /\ tasks[self].read # <<>>
                      /\ SameRead(tasks[self].read[1], raw))
                  => /\ Emitted(self)' = E
                     /\ nmsg' = nmsg
                     /\ queue' = queue]_vars

\* C2 happens: a monitor has emitted the unknown snapshot and then the one
\* with bid 150.25, and its last cycle read 150.25 again and emitted nothing.
C2_Witness ==
    \E self \in DOMAIN tasks :
        /\ tasks[self].kind = "monitor"
        /\ tasks[self].st = "sleep"
        /\ ~tasks[self].emitted
        /\ tasks[self].read # <<>>
        /\ tasks[self].read[1].bid = Num(15025)
        /\ Len(Emitted(self)) = 2
        /\ Last(Emitted(self)).m.bid = Num(15025)

\* the quote snapshots for a symbol put on the queue so far
QuotesFor(sym) ==
    SelectSeq(delivered,
              LAMBDA it : it.m.event_type = "top_of_book" /\ it.m.symbol = sym)

\* C3: the quote monitor never drops a changed snapshot.  When no put is
\* pending, a poll cycle whose read makes a snapshot that differs from the
\* last snapshot put on the queue for that symbol emits it: one more message
\* of the monitor is on the queue or waits for space.
C3_NeverDrops ==
    [][\A self \in DOMAIN tasks :
          Polls(self) =>
              LET sym == tasks[self].symbol
                  raw == quote[sym]
                  L == QuotesFor(sym)
              IN  (/\ TopOfBookMessage(normalize_ticker(sym, raw)) # <<>>
                   /\ \A t \in DOMAIN tasks : tasks[t].message = <<>>
                   /\ L # <<>>
                   /\ ~SameAs(raw, Last(L).m))
                  => /\ Len(Emitted(self)') = Len(Emitted(self)) + 1
                     /\ SameAs(raw, Last(Emitted(self)').m)]_vars

\* ---- the queue
\* C4: backpressure.  The queue never holds more than its capacity, and
\* while it holds that many no put completes: nothing is delivered in a step
\* that starts with the queue full, from whatever producer.
C4_Backpressure ==
    /\ [](Len(queue) <= QueueMaxsize)
    /\ [][Len(queue) = QueueMaxsize => delivered' = delivered]_vars

\* C4 happens: the queue is full and a producer is suspended in put.
C4_Witness ==
    /\ Len(queue) = QueueMaxsize
    /\ putters # <<>>
    /\ tasks[Head(putters)].message # <<>>

\* the numbers of the messages in a sequence of items, and of the messages
\* a producer still has to put
Ids(items) == {items[i].id : i \in DOMAIN items}
Pending ==
    {tasks[t].message[1].id :
        t \in {u \in DOMAIN tasks :
                  tasks[u].message # <<>> /\ tasks[u].st # "done"}}

\* C5: no message is dropped.  Every message constructed is either still to
\* be put by its producer or has been put on the queue exactly once, what is
\* put is what the consumer has got followed by what the queue holds, and
\* with a consumer that keeps calling get every message constructed is
\* eventually got: again and again the consumer has got all the messages
\* constructed so far.
C5_NoMessageDropped ==
    /\ [](LET out == dequeued \o queue
          IN  /\ delivered = out
              /\ \A i, j \in DOMAIN out : out[i].id = out[j].id => i = j
              /\ Ids(out) \cup Pending = 1..nmsg
              /\ Ids(out) \cap Pending = {})
    /\ []<>(Ids(dequeued) = 1..nmsg)

\* C5 happens: more messages than the queue holds were constructed, one of
\* them had to wait, and the consumer has got them all.
C5_Witness ==
    /\ nmsg > QueueMaxsize
    /\ Len(dequeued) = nmsg
    /\ \E t \in DOMAIN tasks : tasks[t].kind = "put" /\ tasks[t].st = "done"
    /\ \E i \in DOMAIN dequeued : dequeued[i].src.by = "callback"

\* C6: per-monitor FIFO.  Two messages of the same producer (a monitor
\* task, or a depth callback over all its invocations) are put on the queue,
\* and so dequeued, in the order the producer constructed them.
C6_PerMonitorFifo ==
    \A i, j \in DOMAIN delivered :
        (/\ i < j
         /\ delivered[i].src.by = delivered[j].src.by
         /\ delivered[i].src.n = delivered[j].src.n)
        => delivered[i].id < delivered[j].id

\* ---- the depth callback
\* the messages of the put tasks that invocation k of a callback created,
\* in the order of their creation
RECURSIVE Scheduled(_, _)
Scheduled(k, t) ==
    IF t > Len(tasks) THEN <<>>
    ELSE (IF /\ tasks[t].kind = "put"
             /\ tasks[t].message[1].src.call = k
          THEN <<tasks[t].message[1].m>> ELSE <<>>)
         \o Scheduled(k, t + 1)

\* the messages of one side among a sequence of depth messages
OfSide(msgs, side) == SelectSeq(msgs, LAMBDA m : m.side = side)

QuoteEntries(subs, sym) == {e \in subs : e.kind = "quotes" /\ e.ticker = sym}

\* C8: idempotent subscribe.  A call of subscribe_top_of_book(sym) made
\* when the registry already holds the entry of an earlier call for sym
\* leaves exactly one entry for (sym, quotes), and at no moment are there
\* two.
C8_IdempotentSubscribe ==
    /\ [](\A sym \in contracts :
             Cardinality(QuoteEntries(ticker_subs, sym)) <= 1)
    /\ [][\A sym \in contracts :
             (/\ QuoteEntries(ticker_subs, sym) # {}
              /\ \E u \in upstream' \ upstream :
                     u.kind = "mktData" /\ u.symbol = sym)
             => Cardinality(QuoteEntries(ticker_subs', sym)) = 1]_vars

\* C8 happens: two quote requests for a symbol are open, the second call's
\* being the one entry of the registry for it.
C8_Witness ==
    \E sym \in contracts :
        /\ Cardinality({u \in upstream :
                           u.kind = "mktData" /\ u.symbol = sym}) = 2
        /\ Cardinality(QuoteEntries(ticker_subs, sym)) = 1
        /\ \A e \in QuoteEntries(ticker_subs, sym) :
               \A u \in upstream : u.req <= e.req

\* the kind of upstream request a stream kind of the registry opens
RequestKind ==
    [quotes |-> "mktData", ticks |-> "tickByTick", depth |-> "mktDepth",
     smart_depth |-> "mktDepth"]

\* C9: subscribe does not leak.  For every symbol there is at most one
\* quote monitor, at most one tick monitor of each tick type and at most one
\* depth callback of each kind at work, and every request open at the feed
\* is the request of an entry of the registries.
C9_NoLeak ==
    /\ \A t, u \in Monitors :
           (/\ tasks[t].kind = tasks[u].kind
            /\ tasks[t].symbol = tasks[u].symbol
            /\ tasks[t].tickType = tasks[u].tickType) => t = u
    /\ \A c, d \in DOMAIN updateEvent : updateEvent[c] = updateEvent[d] => c = d
    /\ \A u \in upstream :
           \E e \in ticker_subs \cup l2_depth_subs :
               e.req = u.req /\ RequestKind[e.kind] = u.kind

\* ---- teardown
\* C10: teardown ordering for the registry.  A disconnect() of a connected
\* adapter attempts the cancel of every entry the registries held, each
\* before the connection is released; at the release, which is the last
\* call on the connection, both registries are empty (ok of the event), and
\* so they are after disconnect().
C10_TeardownOrder ==
    [][(ib = "connected" /\ ib' = "disconnected") =>
          /\ log' # <<>>
          /\ Last(log').op = "disconnect"
          /\ Last(log').ok
          /\ \A i \in 1..(Len(log') - 1) : log'[i].op # "disconnect"
          /\ \A e \in ticker_subs :
                 \E i \in 1..(Len(log') - 1) :
                     log'[i].op = "cancelMktData" /\ log'[i].key = e.key
          /\ \A e \in l2_depth_subs :
                 \E i \in 1..(Len(log') - 1) :
                     log'[i].op = "cancelMktDepth" /\ log'[i].key = e.key
          /\ ticker_subs' = {}
          /\ l2_depth_subs' = {}]_vars

\* C10 happens: a disconnect() has swept an entry of each registry, one of
\* the cancels raising, and released the connection.
C10_Witness ==
    /\ ib = "disconnected"
    /\ Len(log) = 3
    /\ log[1].op = "cancelMktData"
    /\ log[2].op = "cancelMktDepth"
    /\ \E i \in 1..2 : ~log[i].ok
    /\ ticker_subs = {} /\ l2_depth_subs = {}

\* a task that has not come to its end: a monitor in its loop, an operation
\* or a put not yet complete
Running(t) == tasks[t].st \notin {"done", "failed"}

\* C11: teardown of monitors.  At the moment disconnect() releases the
\* connection, no monitor task spawned by a subscribe_* call is still
\* running.
C11_NoMonitorAtRelease ==
    [][(ib = "connected" /\ ib' = "disconnected") =>
          \A t \in Monitors' : ~Running(t)']_vars

\* C12: cancellation stops emission.  Once disconnect() has cancelled the
\* subscriptions and released the connection, no monitor constructs a
\* message and nothing more is put on the output queue.
C12_CancelStopsEmission ==
    [][ib = "disconnected" => (delivered' = delivered /\ nmsg' = nmsg)]_vars

\* C13: total sweep.  Whatever cancels raise, a disconnect() of a connected
\* adapter attempts the cancel of every entry of both registries (one call
\* on the connection per entry, the failing ones included), raises nothing
\* to its caller, and then releases the connection.
C13_TotalSweep ==
    [][(ib = "connected" /\ ib' = "disconnected") =>
          /\ called' = Call("disconnect", "", "")
          /\ Len(log') = Cardinality(ticker_subs)
                           + Cardinality(l2_depth_subs) + 1
          /\ \A e \in ticker_subs :
                 Cardinality({i \in DOMAIN log' :
                     log'[i].op = "cancelMktData" /\ log'[i].key = e.key}) = 1
          /\ \A e \in l2_depth_subs :
                 Cardinality({i \in DOMAIN log' :
                     log'[i].op = "cancelMktDepth" /\ log'[i].key = e.key}) = 1
          /\ log'[Len(log')].op = "disconnect"]_vars

\* C13 happens: the cancels of both entries of a disconnect() raised, the
\* second was attempted after the first had failed, and the connection was
\* released.
C13_Witness ==
    /\ ib = "disconnected"
    /\ called = Call("disconnect", "", "")
    /\ Len(log) = 3
    /\ ~log[1].ok /\ ~log[2].ok
    /\ log[1].key # log[2].key
    /\ log[3].op = "disconnect"

\* the operations that take a symbol
Operations ==
    {"subscribe_top_of_book", "subscribe_tick_by_tick", "subscribe_order_book",
     "subscribe_smart_depth", "request_historical_data",
     "request_fundamental_data", "request_fundamental_ratios"}

\* C14: unknown symbol.  A subscribe_* or request_* operation called with a
\* symbol that has no contract raises ValueError in the call and changes
\* nothing: no request at the feed, no task, no callback, registries,
\* contracts and queue as before.  So every request, task, callback and
\* registry entry there is belongs to a symbol with a contract.
C14_UnknownSymbol ==
    /\ [][(/\ called' # called
           /\ called'.op \in Operations
           /\ called'.symbol \notin contracts)
          => /\ called'.raised = "ValueError"
             /\ UNCHANGED <<ib, contracts, registry, requests, feed, loop>>]_vars
    /\ [](/\ \A e \in ticker_subs \cup l2_depth_subs : e.ticker \in contracts
          /\ \A u \in upstream : u.symbol \in contracts
          /\ \A t \in DOMAIN tasks : tasks[t].symbol \in contracts
          /\ \A c \in DOMAIN updateEvent : updateEvent[c].symbol \in contracts)

\* C14 happens: with a subscription at work for one symbol, a request for a
\* symbol without contract has raised ValueError.
C14_Witness ==
    /\ ib = "connected"
    /\ called.op = "request_historical_data"
    /\ called.raised = "ValueError"
    /\ called.symbol \notin contracts
    /\ ticker_subs # {}

\* C15: smart-depth fallback.  When the feed rejects the smart-depth
\* request of subscribe_smart_depth for a symbol with a contract, the call
\* raises nothing and has made a standard depth subscription for the symbol
\* with the same numRows: the request at the feed, its registry entry and
\* its callback on the Ticker's updateEvent.
C15_SmartDepthFallback ==
    [][(/\ called'.op = "subscribe_smart_depth"
        /\ called'.rejected # "no"
        /\ (called' # called \/ nreq' # nreq))
       => /\ called'.raised = ""
          /\ \E u \in upstream' \ upstream :
                 /\ u.symbol = called'.symbol /\ u.kind = "mktDepth"
                 /\ ~u.isSmartDepth /\ u.numRows = called'.numRows
          /\ \E e \in l2_depth_subs' :
                 /\ e.key = called'.symbol /\ e.kind = "depth"
                 /\ e.req = nreq'
          /\ Len(updateEvent') = Len(updateEvent) + 1
          /\ updateEvent'[Len(updateEvent')] =
                 [ticker |-> called'.symbol, symbol |-> called'.symbol,
                  smart |-> FALSE]]_vars

\* C16: the quote monitor survives bad reads.  A poll cycle whose snapshot
\* cannot be built constructs and puts nothing, leaves the monitor's last
\* snapshot as it was and ends in the sleep from which the loop goes on; a
\* cycle whose snapshot is built and differs from the last one the monitor
\* emitted emits it, whatever failed before.  No quote monitor ever ends.
C16_SurvivesBadReads ==
    /\ [][\A self \in DOMAIN tasks :
             Polls(self) =>
                 LET sym == tasks[self].symbol
                     raw == quote[sym]
                     built == TopOfBookMessage(normalize_ticker(sym, raw))
                     E == Emitted(self)
                 IN  /\ built = <<>> =>
                            /\ Emitted(self)' = E
                            /\ nmsg' = nmsg
                            /\ queue' = queue
                            /\ tasks'[self].prev_snapshot =
                                   tasks[self].prev_snapshot
                            /\ tasks'[self].st = "sleep"
                     /\ (built # <<>> /\ (E = <<>> \/ ~SameAs(raw, Last(E).m)))
                            => /\ Len(Emitted(self)') = Len(E) + 1
                               /\ SameAs(raw, Last(Emitted(self)').m)]_vars
    /\ [](\A self \in DOMAIN tasks :
             tasks[self].kind = "monitor" => Running(self))

\* C16 happens: a monitor whose except branch has run (a cycle read the
\* volume 100.50) has, in its last cycle, read the volume 100 and emitted
\* the snapshot.
C16_Witness ==
    \E self \in DOMAIN tasks :
        /\ tasks[self].kind = "monitor"
        /\ tasks[self].caught
        /\ tasks[self].emitted
        /\ tasks[self].read # <<>>
        /\ tasks[self].read[1].volume = Num(10000)
        /\ Emitted(self) # <<>>
        /\ Last(Emitted(self)).m.volume = Num(10000)

\* ---- the tick monitor
\* C17: the tick monitor recovers from read errors.  A tick entry from
\* which no message can be built never ends the monitor task: the task of
\* every tick monitor stays in its loop.
C17_TickMonitorRecovers ==
    \A self \in DOMAIN tasks :
        tasks[self].kind = "monitor_ticks" => tasks[self].st # "failed"

\* this step is a poll cycle of the tick monitor self: the check of line 126
\* after the sleep, up to the next suspension
TickPolls(self) ==
    /\ tasks[self].kind = "monitor_ticks"
    /\ tasks[self].st = "loop"
    /\ tasks'[self].st # "loop"

\* C18: list reset tolerance.  A poll cycle that finds the tick list shorter
\* than the monitor's cursor takes every entry of the list as new: it emits
\* one message for each, and the cursor is no longer beyond the list.
C18_ListResetTolerance ==
    [][\A self \in DOMAIN tasks :
          (/\ TickPolls(self)
           /\ Len(tickByTicks[tasks[self].symbol])
                  < tasks[self].last_processed_count)
          => /\ Len(Emitted(self)') =
                    Len(Emitted(self)) + Len(tickByTicks[tasks[self].symbol])
             /\ tasks'[self].st = "sleep" =>
                    tasks'[self].last_processed_count
                        <= Len(tickByTicks[tasks[self].symbol])]_vars

\* C19: tick emission order.  What a tick monitor has emitted (put on the
\* queue, or waiting for space in its put) is in the order of the feed's
\* list: the entries emitted have increasing indices (a tick's time is its
\* index), across poll cycles and waits on the full queue.
C19_TickOrder ==
    \A self \in DOMAIN tasks :
        tasks[self].kind = "monitor_ticks" =>
            LET E == Emitted(self)
            IN  \A a, b \in DOMAIN E : a < b => E[a].m.time < E[b].m.time

\* C19 happens: a tick monitor that has put two ticks on the queue, in two
\* puts, waits for space to put the third.
C19_Witness ==
    \E self \in DOMAIN tasks :
        /\ tasks[self].kind = "monitor_ticks"
        /\ tasks[self].st = "put"
        /\ Len(FromSrc(delivered, TaskSrc(self))) = 2
        /\ Len(Emitted(self)) = 3

\* C20: output stream of the quotes.  For each symbol, no two consecutive
\* quote snapshots put on the output queue are field-wise equal, however
\* many times subscribe_top_of_book was called for the symbol.
C20_NoEqualConsecutive ==
    \A sym \in contracts :
        LET L == QuotesFor(sym)
        IN  \A i \in 1..(Len(L) - 1) : L[i].m # L[i + 1].m

\* ---- throttling
\* the messages a producer (a monitor task, or a depth callback over all
\* its invocations) has constructed and not yet put on the queue
Waiting(by, n) ==
    {t \in DOMAIN tasks :
        /\ tasks[t].message # <<>>
        /\ tasks[t].st # "done"
        /\ tasks[t].message[1].src.by = by
        /\ tasks[t].message[1].src.n = n}

\* C21: uniform throttling.  While the output queue is full, every producer
\* is suspended in its put: a quote monitor, a tick monitor and a depth
\* callback each have at most one message constructed and not yet put on
\* the queue.
C21_UniformThrottling ==
    Len(queue) = QueueMaxsize =>
        \A t \in DOMAIN tasks :
            tasks[t].message # <<>> =>
                Cardinality(Waiting(tasks[t].message[1].src.by,
                                    tasks[t].message[1].src.n)) <= 1

\* C22: depth update-only semantics.  Every message of a depth callback,
\* standard or smart, has operation 1 (update); the messages of an
\* invocation are those of the bid levels with side 0, then those of the
\* ask levels with side 1, also when the ladder has fewer levels than at the
\* invocation before.
C22_UpdateOnly ==
    /\ \A t \in DOMAIN tasks :
           tasks[t].kind = "put" =>
               /\ tasks[t].message[1].m.operation = 1
               /\ tasks[t].message[1].m.side \in {0, 1}
    /\ \A k \in DOMAIN calls :
           LET msgs == Scheduled(k, 1)
               nb == Len(calls[k].domBids)
           IN  \A i \in DOMAIN msgs :
                   IF i <= nb
                   THEN /\ msgs[i].side = 0
                        /\ msgs[i].price = calls[k].domBids[i].price
                   ELSE /\ msgs[i].side = 1
                        /\ msgs[i].price = calls[k].domAsks[i - nb].price

\* C22 happens: a callback was invoked on a ladder of two bids and then on
\* a ladder of one bid, and a message of the second invocation was put on
\* the queue.
C22_Witness ==
    \E k1, k2 \in DOMAIN calls :
        /\ k1 < k2
        /\ calls[k1].cb = calls[k2].cb
        /\ Len(calls[k1].domBids) = 2
        /\ Len(calls[k2].domBids) = 1
        /\ \E i \in DOMAIN delivered : delivered[i].src.call = k2

\* ---- the request operations
\* the event_type of the response of each request operation
EventType ==
    [request_historical_data |-> "historical_data",
     request_fundamental_data |-> "fundamental_data",
     request_fundamental_ratios |-> "fundamental_ratios"]

\* C23: one response per request.  A request operation that has completed
\* has put exactly one message on the queue, one that has not completed or
\* has raised has put none; the message has the symbol of the request and
\* the event_type of its kind, and a fundamental response has the feed's
\* data as the feed gave it (and the reportType requested).
C23_OneResponse ==
    \A t \in Requests :
        LET T == tasks[t]
            out == FromSrc(delivered, TaskSrc(t))
        IN  /\ Len(out) = IF T.st = "done" THEN 1 ELSE 0
            /\ \A i \in DOMAIN out :
                   /\ out[i].m.symbol = T.symbol
                   /\ out[i].m.event_type = EventType[T.kind]
                   /\ T.kind # "request_historical_data" =>
                          out[i].m.data = T.data
                   /\ T.kind = "request_fundamental_data" =>
                          out[i].m.report_type = T.tickType

\* C23 happens: request_fundamental_data has completed and the consumer has
\* got its response.
C23_Witness ==
    \E t \in Requests :
        /\ tasks[t].kind = "request_fundamental_data"
        /\ tasks[t].st = "done"
        /\ \E i \in DOMAIN dequeued : dequeued[i].src = TaskSrc(t)

\* C24: the bars of a historical response.  The HistoricalDataResponse that
\* request_historical_data has put has as many bars as the feed returned,
\* in the feed's order, each with the feed's date, open, high, low, close
\* and volume.
C24_BarsAsReturned ==
    \A t \in Requests :
        tasks[t].kind = "request_historical_data" =>
            LET out == FromSrc(delivered, TaskSrc(t))
                data == tasks[t].data
            IN  \A i \in DOMAIN out :
                    /\ Len(out[i].m.bars) = Len(data)
                    /\ \A b \in DOMAIN data :
                           /\ out[i].m.bars[b].date = data[b].date
                           /\ out[i].m.bars[b].open = data[b].open
                           /\ out[i].m.bars[b].high = data[b].high
                           /\ out[i].m.bars[b].low = data[b].low
                           /\ out[i].m.bars[b].close = data[b].close
                           /\ out[i].m.bars[b].volume = data[b].volume

\* C24 happens: the consumer has got a historical response of two bars.
C24_Witness ==
    \E i \in DOMAIN dequeued :
        /\ dequeued[i].m.event_type = "historical_data"
        /\ Len(dequeued[i].m.bars) = 2
        /\ dequeued[i].m.bars[1].date # dequeued[i].m.bars[2].date

\* ---- the quote messages
\* C25: the messages of the quote monitor.  Every message emitted by the
\* monitor that subscribe_top_of_book(S) started has symbol S and event_type
\* "top_of_book"; with quotes the only subscriptions, the first message the
\* consumer gets is such a message of a monitor at work.
C25_QuoteMessages ==
    /\ \A t \in DOMAIN tasks :
           tasks[t].kind = "monitor" =>
               \A i \in DOMAIN Emitted(t) :
                   /\ Emitted(t)[i].m.symbol = tasks[t].symbol
                   /\ Emitted(t)[i].m.event_type = "top_of_book"
    /\ dequeued # <<>> =>
           /\ dequeued[1].m.event_type = "top_of_book"
           /\ \E t \in DOMAIN tasks :
                  /\ tasks[t].kind = "monitor"
                  /\ dequeued[1].src = TaskSrc(t)
                  /\ dequeued[1].m.symbol = tasks[t].symbol

\* C25 happens: the consumer has got the first snapshot of the monitor.
C25_Witness ==
    /\ dequeued # <<>>
    /\ dequeued[1].m.symbol \in contracts
    /\ \E e \in ticker_subs : e.kind = "quotes" /\ e.key = dequeued[1].m.symbol

\* ---- the contracts
\* C26: contract registration.  Every symbol given to define_contracts is
\* registered, and stays so: the registered symbols are those for which the
\* feed has a Ticker.  A registration keeps the contracts of the other
\* symbols and changes neither the subscription registries nor the queue; a
\* subscribe_* or request_* operation on a registered symbol does not raise
\* the unknown-symbol error; disconnect() leaves the contracts as they are.
C26_ContractRegistration ==
    /\ [](contracts = DOMAIN quote)
    /\ [][contracts' # contracts =>
             /\ contracts \subseteq contracts'
             /\ UNCHANGED <<registry, requests, called, loop>>]_vars
    /\ [][(/\ called'.op \in Operations
           /\ (called' # called \/ nreq' # nreq \/ tasks' # tasks)
           /\ called'.symbol \in contracts)
          => called'.raised # "ValueError"]_vars
    /\ [][(ib = "connected" /\ ib' = "disconnected") =>
             contracts' = contracts]_vars

\* C26 happens: two symbols were registered one after the other, a
\* subscription on the second passed its check, and a disconnect() has swept
\* it and released the connection with both contracts still registered.
C26_Witness ==
    /\ ib = "disconnected"
    /\ Cardinality(contracts) = 2
    /\ called.op = "disconnect"
    /\ Len(log) = 2
    /\ log[1].key = "PLTR"
    /\ \E t \in DOMAIN tasks : tasks[t].symbol = "PLTR"

\* ---- ownership
\* a step of the loop running task t: t leaves the head of the run queue
StepOf(t) ==
    /\ t # 0
    /\ IsHead(t)
    /\ ready' # ready
    /\ Len(ready') <= Len(ready)

\* a step that runs depth callbacks: the feed's updateEvent invokes them
CallbackStep == calls' # calls

\* C27: registry ownership.  The registries change only in a subscribe_*
\* operation that took effect (it made a request of the feed) or in the
\* sweep of disconnect(); no step of a monitor task, of a put task or of a
\* depth callback changes the registries or the contracts; the last
\* snapshot and the tick cursor of a monitor change only in a step of that
\* monitor.
C27_RegistryOwnership ==
    /\ [][registry' # registry =>
             \/ /\ nreq' = nreq + 1
                /\ called'.op \in Operations
                /\ called'.op # "disconnect"
                /\ called'.raised = ""
             \/ /\ called'.op = "disconnect"
                /\ ib' = "disconnected"
                /\ registry' = <<{}, {}>>]_vars
    /\ [][((\E t \in DOMAIN tasks : StepOf(t)) \/ CallbackStep) =>
             UNCHANGED <<registry, contracts>>]_vars
    /\ [][\A t \in DOMAIN tasks :
             (\/ tasks'[t].prev_snapshot # tasks[t].prev_snapshot
              \/ tasks'[t].last_processed_count
                     # tasks[t].last_processed_count)
             => StepOf(t) /\ t \in Monitors]_vars

\* C27 happens: a quote monitor has emitted and keeps its last snapshot, and
\* a disconnect() after that has cancelled its entry and cleared the
\* registries.
C27_Witness ==
    /\ \E t \in Monitors : tasks[t].prev_snapshot # <<>>
    /\ ib = "disconnected"
    /\ called.op = "disconnect"
    /\ Len(log) = 2
    /\ registry = <<{}, {}>>

\* ---- matching release
\* the cancel operation that matches how an entry of a registry was opened,
\* and its smart flag
CancelOf ==
    [quotes |-> "cancelMktData", ticks |-> "cancelTickByTickData",
     depth |-> "cancelMktDepth", smart_depth |-> "cancelMktDepth"]

\* C28: matching release.  The sweep of disconnect() releases every entry of
\* the registries with the cancel that matches how it was opened: quotes by
\* cancelMktData, ticks by cancelTickByTickData, standard depth by
\* cancelMktDepth with isSmartDepth off and smart depth by cancelMktDepth
\* with isSmartDepth on.
C28_MatchingRelease ==
    [][called'.op = "disconnect" =>
          \A e \in ticker_subs \cup l2_depth_subs :
              \E i \in DOMAIN log' :
                  /\ log'[i].key = e.key
                  /\ log'[i].op = CancelOf[e.kind]
                  /\ log'[i].isSmartDepth = (e.kind = "smart_depth")]_vars

\* ---- registry keys
\* C29: the registry keys are injective on (symbol, stream kind).  An entry
\* of a registry is replaced only by a subscription of the same symbol and
\* the same kind of stream: a subscribe_* operation on another symbol or
\* for another kind of stream leaves it in its registry.
C29_KeysInjective ==
    [][called'.op # "disconnect" =>
          \A e \in ticker_subs \cup l2_depth_subs :
              \E f \in ticker_subs' \cup l2_depth_subs' :
                  /\ f.key = e.key
                  /\ f.ticker = e.ticker
                  /\ f.kind = e.kind]_vars

\* ---- fallback
\* a subscribe_smart_depth(S) whose smart-depth request the feed rejects
\* returns
FallbackOf(S) ==
    /\ called'.op = "subscribe_smart_depth"
    /\ called'.symbol = S
    /\ called'.raised = ""
    /\ called'.rejected # "no"
    /\ nreq' # nreq

\* C30: the registry after a smart-depth fallback.  When the feed rejects
\* the smart-depth request for S, subscribe_smart_depth(S) leaves a
\* standard-depth entry for S in the depth registry, adds no smart-depth
\* entry for S and connects no smart-depth callback; and no standard-depth
\* request for S is open at the feed without its entry in the registry.
C30_FallbackRegistry ==
    [][\A S \in AdapterSymbols : FallbackOf(S) =>
          /\ \E e \in l2_depth_subs' : e.ticker = S /\ e.kind = "depth"
          /\ \A e \in l2_depth_subs' :
                e.ticker = S /\ e.kind = "smart_depth" => e \in l2_depth_subs
          /\ \A c \in DOMAIN updateEvent' :
                updateEvent'[c].ticker = S /\ updateEvent'[c].smart
                    => c \in DOMAIN updateEvent
          /\ \A u \in upstream' :
                (u.symbol = S /\ u.kind = "mktDepth" /\ ~u.isSmartDepth)
                    => \E e \in l2_depth_subs' : e.req = u.req]_vars


====
